---- MODULE Spec2Model ----
(***************************************************************************)
(* State-machine model of the coding-wizard LangChain front end:           *)
(*   - GraphTracer        (src/src/langchain/app.py)                       *)
(*   - Conversation.chat  (src/src/langchain/app.py)                       *)
(*   - process_message    (src/src/langchain/app.py, agent.py)             *)
(*   - memory_store / create_memory (src/src/langchain/agent.py)           *)
(*                                                                         *)
(* Python objects are modelled by value plus an explicit heap where the    *)
(* code depends on identity: Run objects live in `objs` (the tracer's log  *)
(* holds references into it), chat histories live in `histories`.          *)
(***************************************************************************)
EXTENDS Naturals, Sequences, FiniteSets, TLC

(* ---------------------------------------------------------------------- *)
(* Bounds of the model                                                     *)
(* ---------------------------------------------------------------------- *)
\* Run objects the pipeline may allocate.
MaxRuns == 2
\* Length of GraphTracer.runs beyond which no further run is logged.
MaxLog == 2
\* Threads that may be inside one function at a time.
MaxThreads == 2

(* ---------------------------------------------------------------------- *)
(* Values                                                                  *)
(* ---------------------------------------------------------------------- *)
\* Python's None.
None == "None"
\* A missing attribute (hasattr is False) or a missing dict key.
Absent == "absent"
\* A set end_time.
Stamp == "t1"

RunIds == {"a", "b"}
\* Run.name and Run.run_type of the k-th Run object the pipeline allocates.
Names == <<"n1", "n2", "n3", "n4", "n5", "n6">>
Kinds == <<"chain", "tool", "llm", "chain", "tool", "llm">>
Terminal == {"success", "error"}

VARIABLES
    objs,          \* heap of Run objects: Seq of records, index = reference
    tracer,        \* the GraphTracer in use (Conversation.tracer)
    outcome,       \* what the last tracer call returned or raised
    parentsValid,  \* history: every on_run_create since start_trace named
                   \* no parent or a parent already created
    created,       \* history: the ids on_run_create was called with since
                   \* the trace was started
    messages,      \* Conversation.messages
    last_response, \* Conversation._last_response
    pc,            \* where the one chat call is: "idle" or "invoking"
    sent,          \* the messages chain.invoke was last given
    turn,          \* how the last turn operation ended
    turns,         \* turn operations started so far
    traceOpen,     \* history: start_trace ran and end_trace has not yet
    accepted,      \* history: the inputs of the chat turns so far
    echoOnly,      \* history: every chat turn so far got the echo pipeline
                   \* and returned
    earlier,       \* history: the ids on_run_create was called with in the
                   \* turns before the current one
    memory_store,  \* agent.memory_store: session id -> reference into heap
    histories,     \* the chat histories: Seq of message sequences, index =
                   \* reference
    held,          \* the histories create_memory has handed to its callers
    mem,           \* the last operation on the memory store
    callers,       \* the threads inside create_memory: where each one is
                   \* and the session id it was called with
    tracers,       \* heap of GraphTracer objects: index = reference
    self_tracer,   \* conversation.tracer: reference into tracers
    chats,         \* the threads inside Conversation.chat: where each one
                   \* is and its local values
    phase          \* history, per GraphTracer object: "new", "started" or
                   \* "ended"

tvars == <<objs, tracer, outcome, parentsValid, created>>
cvars == <<messages, last_response, pc, sent, turn, turns, traceOpen,
           accepted, echoOnly, earlier>>
avars == <<memory_store, histories, held, mem>>
crvars == <<tracers, self_tracer, chats, phase>>
rvars == <<callers, crvars>>
vars == <<tvars, cvars, avars, rvars>>

(* ---------------------------------------------------------------------- *)
(* networkx.DiGraph as GraphTracer uses it.  nodes is the insertion-       *)
(* ordered node list with each node's attribute dict (a missing key is     *)
(* Absent); edges is the set of (u, v) pairs.                              *)
(* ---------------------------------------------------------------------- *)
NodeIds(t) == {t.nodes[i].id : i \in 1..Len(t.nodes)}

HasNode(t, id) == id \in NodeIds(t)

NodeIndex(t, id) == CHOOSE i \in 1..Len(t.nodes) : t.nodes[i].id = id

NodeOf(t, id) == t.nodes[NodeIndex(t, id)]

BareNode(id) ==
    [id |-> id, label |-> Absent, type |-> Absent,
     status |-> Absent, end_time |-> Absent]

\* DiGraph.add_node(id, label=..., type=...): creates the node or updates
\* the two attributes of the existing one.
AddNode(t, id, label, type) ==
    IF HasNode(t, id)
    THEN [t EXCEPT !.nodes[NodeIndex(t, id)].label = label,
                   !.nodes[NodeIndex(t, id)].type = type]
    ELSE [t EXCEPT !.nodes = Append(@, [BareNode(id) EXCEPT !.label = label,
                                                               !.type = type])]

\* DiGraph.add_edge(u, v): both endpoints are created, attribute-less, when
\* they are not nodes yet.
AddEdge(t, u, v) ==
    LET t1 == IF HasNode(t, u) THEN t
              ELSE [t EXCEPT !.nodes = Append(@, BareNode(u))]
        t2 == IF HasNode(t1, v) THEN t1
              ELSE [t1 EXCEPT !.nodes = Append(@, BareNode(v))]
    IN [t2 EXCEPT !.edges = @ \cup {<<u, v>>}]

(* ---------------------------------------------------------------------- *)
(* GraphTracer                                                             *)
(* ---------------------------------------------------------------------- *)
\* A call's result: the tracer afterwards and the exception raised, if any.
\* A returned value is a one-element sequence, no value the empty one.
Ok(t) == [t |-> t, exc |-> None]
Raise(t, e) == [t |-> t, exc |-> e]

GraphTracerInit == [nodes |-> <<>>, edges |-> {}, runs |-> <<>>]

PersistRun(t, ref) == [t EXCEPT !.runs = Append(@, ref)]

\* load_run: index in t.runs of the first logged run with that id, 0 when
\* the loop ends without a match (KeyError).
RECURSIVE LoadRunFrom(_, _, _, _)
LoadRunFrom(t, heap, run_id, i) ==
    IF i > Len(t.runs) THEN 0
    ELSE IF heap[t.runs[i]].id = run_id THEN i
    ELSE LoadRunFrom(t, heap, run_id, i + 1)

\* A load_run that returns the first logged run without comparing its id.
LoadRunUnchecked(t, heap, run_id) ==
    IF Len(t.runs) = 0 THEN [t |-> t, exc |-> "KeyError", value |-> <<>>]
    ELSE [t |-> t, exc |-> None, value |-> <<t.runs[1]>>]

LoadRun(t, heap, run_id) ==
    LET i == LoadRunFrom(t, heap, run_id, 1)
    IN IF i = 0 THEN [t |-> t, exc |-> "KeyError", value |-> <<>>]
       ELSE [t |-> t, exc |-> None, value |-> <<t.runs[i]>>]

OnRunCreate(t, ref, run) ==
    LET t1 == [t EXCEPT !.runs = Append(@, ref)]
        t2 == AddNode(t1, run.id, run.name, run.run_type)
    IN IF run.parent_run_id # None
       THEN AddEdge(t2, run.parent_run_id, run.id)
       ELSE t2

OnRunUpdate(t, run) ==
    IF run.status # Absent
    THEN IF HasNode(t, run.id)
         THEN Ok([t EXCEPT !.nodes[NodeIndex(t, run.id)].status = run.status])
         ELSE Raise(t, "KeyError")
    ELSE Ok(t)

OnRunEnd(t, run) ==
    IF ~HasNode(t, run.id) THEN Raise(t, "KeyError")
    ELSE IF run.status # Absent
    THEN Ok([t EXCEPT !.nodes[NodeIndex(t, run.id)].status = run.status,
                      !.nodes[NodeIndex(t, run.id)].end_time = run.end_time])
    ELSE Ok([t EXCEPT !.nodes[NodeIndex(t, run.id)].end_time = run.end_time])

\* get_graph_data: the export, or KeyError when a node has no label/type.
GetGraphData(t) ==
    IF \E i \in 1..Len(t.nodes) :
           t.nodes[i].label = Absent \/ t.nodes[i].type = Absent
    THEN [exc |-> "KeyError", value |-> <<>>]
    ELSE [exc |-> None,
          value |-> <<[nodes |-> [i \in 1..Len(t.nodes) |->
                                     [id |-> t.nodes[i].id,
                                      label |-> t.nodes[i].label,
                                      type |-> t.nodes[i].type]],
                       edges |-> {[from |-> e[1], to |-> e[2]] : e \in t.edges}]>>]

StartTrace(t) == [t EXCEPT !.nodes = <<>>, !.edges = {}, !.runs = <<>>]

\* end_trace: the loop over self.runs from position i; an exception raised
\* by on_run_end ends the loop and leaves what was done before it.
RECURSIVE EndTraceFrom(_, _, _)
EndTraceFrom(t, heap, i) ==
    IF i > Len(t.runs) THEN Ok(t)
    ELSE LET run == heap[t.runs[i]]
         IN IF run.end_time = None
            THEN LET r == OnRunEnd(t, run)
                 IN IF r.exc # None THEN r
                    ELSE EndTraceFrom(r.t, heap, i + 1)
            ELSE EndTraceFrom(t, heap, i + 1)

EndTrace(t, heap) == EndTraceFrom(t, heap, 1)

(* ---------------------------------------------------------------------- *)
(* The tracer driven by its caller: the pipeline allocates and finishes    *)
(* Run objects and calls the tracer's methods in any order.                *)
(* ---------------------------------------------------------------------- *)
Refs == 1..Len(objs)

\* A node registered by on_run_create: the only writer of label and type.
Registered(t, id) == HasNode(t, id) /\ NodeOf(t, id).label # Absent

NoOutcome == [op |-> "init", arg |-> None, exc |-> None, run |-> <<>>, graph |-> <<>>]
\* The last step was the pipeline's own, not a call of the tracer.
PipelineStep == [op |-> "pipeline", arg |-> None, exc |-> None, run |-> <<>>, graph |-> <<>>]

\* Conversation.__init__, and no turn made yet.
NoTurn ==
    [op |-> "init", input |-> <<>>, before |-> <<>>, raised |-> None,
     propagated |-> None, text |-> <<>>, graph |-> <<>>, response |-> <<>>,
     error |-> None]

\* The state after construction: GraphTracer.__init__, Conversation.__init__.
Threads == 1..MaxThreads
\* A thread that is in no call.
Outside == [pc |-> "idle", sid |-> None]

\* A thread that has not called chat.
NoChat ==
    [pc |-> "idle", input |-> <<>>, cm |-> 0, cb |-> 0, arg |-> <<>>,
     raised |-> None, run |-> 0, ret |-> 0, graph |-> <<>>, exc |-> None]

Init ==
    /\ objs = <<>>
    /\ tracer = GraphTracerInit
    /\ outcome = NoOutcome
    /\ parentsValid = TRUE
    /\ created = {}
    /\ messages = <<>>
    /\ last_response = <<>>
    /\ pc = "idle"
    /\ sent = <<>>
    /\ turn = NoTurn
    /\ turns = 0
    /\ traceOpen = FALSE
    /\ accepted = <<>>
    /\ echoOnly = TRUE
    /\ earlier = {}
    /\ memory_store = <<>>
    /\ histories = <<>>
    /\ held = <<>>
    /\ mem = [op |-> "init", sid |-> None]
    /\ callers = [t \in Threads |-> Outside]
    /\ tracers = <<GraphTracerInit>>
    /\ self_tracer = 1
    /\ chats = [t \in Threads |-> NoChat]
    /\ phase = <<"new">>

\* The pipeline creates a Run: status is a field of it or not, end_time unset.
NewRun ==
    /\ Len(objs) < MaxRuns
    /\ \E id \in RunIds, parent \in RunIds \cup {None}, st \in {Absent, "running"} :
          objs' = Append(objs, [id |-> id, parent_run_id |-> parent,
                                name |-> Names[Len(objs) + 1],
                                run_type |-> Kinds[Len(objs) + 1],
                                status |-> st, end_time |-> None])
    /\ outcome' = PipelineStep
    /\ UNCHANGED <<tracer, parentsValid, created>>

\* The pipeline finishes a Run: sets its end_time and, where the Run has a
\* status, a terminal one.
FinishRun ==
    /\ \E o \in Refs, st \in Terminal :
          /\ objs[o].end_time = None
          /\ objs' = [objs EXCEPT ![o].end_time = Stamp,
                                  ![o].status = IF @ = Absent THEN Absent ELSE st]
    /\ outcome' = PipelineStep
    /\ UNCHANGED <<tracer, parentsValid, created>>

persist_run ==
    /\ Len(tracer.runs) < MaxLog
    /\ \E o \in Refs :
          /\ tracer' = PersistRun(tracer, o)
          /\ outcome' = [op |-> "_persist_run", arg |-> None, exc |-> None, run |-> <<>>, graph |-> <<>>]
    /\ UNCHANGED <<objs, parentsValid, created>>

load_run ==
    /\ \E id \in RunIds \cup {"missing"} :
          LET r == LoadRun(tracer, objs, id)
          IN /\ tracer' = r.t
             /\ outcome' = [op |-> "load_run", arg |-> id, exc |-> r.exc,
                             run |-> r.value, graph |-> <<>>]
    /\ UNCHANGED <<objs, parentsValid, created>>

on_run_create ==
    /\ Len(tracer.runs) < MaxLog
    /\ \E o \in Refs :
          /\ tracer' = OnRunCreate(tracer, o, objs[o])
          /\ outcome' = [op |-> "on_run_create", arg |-> None, exc |-> None, run |-> <<>>, graph |-> <<>>]
          /\ parentsValid' = (parentsValid /\
                                (objs[o].parent_run_id = None
                                 \/ Registered(tracer, objs[o].parent_run_id)))
          /\ created' = created \cup {objs[o].id}
    /\ UNCHANGED objs

on_run_update ==
    /\ \E o \in Refs :
          LET r == OnRunUpdate(tracer, objs[o])
          IN /\ tracer' = r.t
             /\ outcome' = [op |-> "on_run_update", arg |-> None, exc |-> r.exc, run |-> <<>>, graph |-> <<>>]
    /\ UNCHANGED <<objs, parentsValid, created>>

on_run_end ==
    /\ \E o \in Refs :
          LET r == OnRunEnd(tracer, objs[o])
          IN /\ tracer' = r.t
             /\ outcome' = [op |-> "on_run_end", arg |-> None, exc |-> r.exc, run |-> <<>>, graph |-> <<>>]
    /\ UNCHANGED <<objs, parentsValid, created>>

get_graph_data ==
    /\ LET r == GetGraphData(tracer)
       IN outcome' = [op |-> "get_graph_data", arg |-> None, exc |-> r.exc,
                      run |-> <<>>, graph |-> r.value]
    /\ UNCHANGED <<objs, tracer, parentsValid, created>>

start_trace ==
    /\ tracer' = StartTrace(tracer)
    /\ outcome' = [op |-> "start_trace", arg |-> None, exc |-> None, run |-> <<>>, graph |-> <<>>]
    /\ parentsValid' = TRUE
    /\ created' = {}
    /\ UNCHANGED objs

end_trace ==
    /\ LET r == EndTrace(tracer, objs)
       IN /\ tracer' = r.t
          /\ outcome' = [op |-> "end_trace", arg |-> None, exc |-> r.exc, run |-> <<>>, graph |-> <<>>]
    /\ UNCHANGED <<objs, parentsValid, created>>

TracerNext ==
    \/ NewRun /\ UNCHANGED <<cvars, avars, rvars>>
    \/ FinishRun /\ UNCHANGED <<cvars, avars, rvars>>
    \/ persist_run /\ UNCHANGED <<cvars, avars, rvars>>
    \/ load_run /\ UNCHANGED <<cvars, avars, rvars>>
    \/ on_run_create /\ UNCHANGED <<cvars, avars, rvars>>
    \/ on_run_update /\ UNCHANGED <<cvars, avars, rvars>>
    \/ on_run_end /\ UNCHANGED <<cvars, avars, rvars>>
    \/ get_graph_data /\ UNCHANGED <<cvars, avars, rvars>>
    \/ start_trace /\ UNCHANGED <<cvars, avars, rvars>>
    \/ end_trace /\ UNCHANGED <<cvars, avars, rvars>>

SpecTracer == Init /\ [][TracerNext]_vars

(* ---------------------------------------------------------------------- *)
(* Properties of the tracer                                                *)
(* ---------------------------------------------------------------------- *)
Statuses(t) == {t.nodes[i].status : i \in 1..Len(t.nodes)}

\* A finite directed graph has a cycle exactly when some non-empty set of
\* its nodes has, for each member, an edge into it from a member.
HasCycle(N, E) ==
    \E S \in SUBSET N :
        /\ S # {}
        /\ \A n \in S : \E m \in S : <<m, n>> \in E

InDegree(E, n) == Cardinality({e \in E : e[2] = n})

ExportedIds(g) == {g.nodes[i].id : i \in 1..Len(g.nodes)}
ExportedEdges(g) == {<<e.from, e.to>> : e \in g.edges}

\* C1: once end_trace has completed, no node of the graph has status
\* running.
C1_ForcedFinalization ==
    (outcome.op = "end_trace" /\ outcome.exc = None)
        => "running" \notin Statuses(tracer)

\* C2: when every parent reference named a run already created, the graph
\* that get_graph_data exports is acyclic and no node has more than one
\* incoming edge.
C2_ExportedForest ==
    (parentsValid /\ outcome.op = "get_graph_data" /\ outcome.exc = None)
        => LET g == outcome.graph[1]
           IN /\ ~HasCycle(ExportedIds(g), ExportedEdges(g))
              /\ \A n \in ExportedIds(g) : InDegree(ExportedEdges(g), n) <= 1

\* C3: in every reachable tracer state both endpoints of every edge are
\* nodes registered by on_run_create (they carry a label and a kind), and
\* get_graph_data can export the graph.
C3_NoDanglingEdge ==
    /\ \A e \in tracer.edges :
           Registered(tracer, e[1]) /\ Registered(tracer, e[2])
    /\ GetGraphData(tracer).exc = None

\* C10: load_run(id) returns a logged run with that id when one was logged
\* since the last start_trace and raises KeyError otherwise; either way the
\* graph, the log and the Run objects are as before the call.
Logged(t, heap, id) == \E i \in 1..Len(t.runs) : heap[t.runs[i]].id = id

C10_LoadRun ==
    [][outcome'.op = "load_run" =>
          /\ tracer' = tracer
          /\ objs' = objs
          /\ IF Logged(tracer, objs, outcome'.arg)
             THEN /\ outcome'.exc = None
                  /\ Len(outcome'.run) = 1
                  /\ \E i \in 1..Len(tracer.runs) : tracer.runs[i] = outcome'.run[1]
                  /\ objs[outcome'.run[1]].id = outcome'.arg
             ELSE outcome'.exc = "KeyError" /\ outcome'.run = <<>>]_vars

\* A load_run that found its run behind a logged run of another id.
C10_Witness ==
    /\ outcome.op = "load_run"
    /\ outcome.exc = None
    /\ Len(tracer.runs) = 2
    /\ outcome.run = <<tracer.runs[2]>>
    /\ objs[tracer.runs[1]].id # outcome.arg

\* C12: on_run_update for a run whose id is not a node of the graph is a
\* no-op: it raises nothing and leaves the graph and the log as they were.
C12_UpdateUnknownNoOp ==
    [][(/\ outcome'.op = "on_run_update"
        /\ \E o \in Refs :
              /\ ~HasNode(tracer, objs[o].id)
              /\ tracer' = OnRunUpdate(tracer, objs[o]).t
              /\ outcome'.exc = OnRunUpdate(tracer, objs[o]).exc)
          => (outcome'.exc = None /\ tracer' = tracer)]_vars

\* C13: on_run_create for an id that already is a created node is ignored:
\* the nodes with their labels and kinds and the edges stay as they were,
\* and in every graph no id is exported twice and no node has two parents.
C13_DuplicateCreateIgnored ==
    [][/\ (/\ outcome'.op = "on_run_create"
            /\ \E o \in Refs :
                  /\ Registered(tracer, objs[o].id)
                  /\ tracer' = OnRunCreate(tracer, o, objs[o]))
              => (tracer'.nodes = tracer.nodes /\ tracer'.edges = tracer.edges)
       /\ \A i, j \in 1..Len(tracer'.nodes) :
              tracer'.nodes[i].id = tracer'.nodes[j].id => i = j
       /\ \A n \in NodeIds(tracer') : InDegree(tracer'.edges, n) <= 1]_vars

\* C15: once a node has status success or error, no on_run_update,
\* on_run_end or end_trace changes the node's status.
C15_TerminalAbsorbing ==
    [][outcome'.op \in {"on_run_update", "on_run_end", "end_trace"} =>
          \A id \in NodeIds(tracer) :
             NodeOf(tracer, id).status \in Terminal =>
                 /\ HasNode(tracer', id)
                 /\ NodeOf(tracer', id).status = NodeOf(tracer, id).status]_vars

\* C16: end_trace adds and removes no node and no edge, and a node that an
\* on_run_end already wrote keeps the status and the end time it has.
C16_EndTraceFrame ==
    [][outcome'.op = "end_trace" =>
          /\ NodeIds(tracer') = NodeIds(tracer)
          /\ Len(tracer'.nodes) = Len(tracer.nodes)
          /\ tracer'.edges = tracer.edges
          /\ \A id \in NodeIds(tracer) :
                NodeOf(tracer, id).end_time # Absent =>
                    /\ NodeOf(tracer', id).status = NodeOf(tracer, id).status
                    /\ NodeOf(tracer', id).end_time = NodeOf(tracer, id).end_time]_vars

(* ---------------------------------------------------------------------- *)
(* Text.  A text is a sequence of tokens: a word, the blank " ", or one of *)
(* the literals the code writes.                                           *)
(* ---------------------------------------------------------------------- *)
\* Turn operations a behaviour may start.
MaxTurns == 2

Blank == " "
UserTexts == {<<>>, <<Blank, Blank>>, <<"hi">>, <<"there">>}

\* str.strip(): without the leading and the trailing whitespace.
RECURSIVE LStrip(_)
LStrip(s) == IF s # <<>> /\ Head(s) = Blank THEN LStrip(Tail(s)) ELSE s

RECURSIVE RStrip(_)
RStrip(s) ==
    IF s # <<>> /\ s[Len(s)] = Blank THEN RStrip(SubSeq(s, 1, Len(s) - 1)) ELSE s

Strip(s) == RStrip(LStrip(s))

HumanMessage(content) == [type |-> "human", content |-> content]
AIMessage(content) == [type |-> "ai", content |-> content]

format_message(msg) ==
    IF msg.type = "human" THEN <<"You: ">> \o msg.content
    ELSE <<"Assistant: ">> \o msg.content

\* "\n\n".join(format_message(msg) for msg in msgs)
RECURSIVE Render(_)
Render(msgs) ==
    IF msgs = <<>> THEN <<>>
    ELSE IF Len(msgs) = 1 THEN format_message(msgs[1])
    ELSE format_message(msgs[1]) \o <<"\n\n">> \o Render(Tail(msgs))

(* ---------------------------------------------------------------------- *)
(* The pipeline behind chain.invoke, as its caller sees it: it returns a   *)
(* message list or raises.                                                 *)
(* ---------------------------------------------------------------------- *)
Exceptions == {"ValueError", "RuntimeError"}
PipelineKinds == {"echo", "reply_only"}

Reply(history) == AIMessage(<<"ack:">> \o history[Len(history)].content)

\* result["messages"] of a pipeline of that kind given that history.
PipelineResult(kind, history) ==
    IF kind = "echo" THEN Append(history, Reply(history))
    ELSE <<Reply(history)>>

(* ---------------------------------------------------------------------- *)
(* Conversation.chat and the Gradio handler process_message                *)
(* ---------------------------------------------------------------------- *)
\* chatbot.value: the Textbox is built without a value and no statement
\* of the program assigns one.  <<>> is None, <<v>> the value v.
chatbot_value == <<>>

\* chatbot.value or ""
ValueOrEmpty(v) == IF v = <<>> THEN <<>> ELSE v[1]

\* A context manager that ends the trace only when its body returned.
TraceExitOnReturnOnly(t, heap, raised) ==
    IF raised # None THEN [t |-> t, exc |-> None, ended |-> FALSE]
    ELSE LET r == EndTrace(t, heap)
         IN [t |-> r.t, exc |-> r.exc, ended |-> TRUE]

\* GraphTracer.trace, after the yield: finally: self.end_trace().
TraceExit(t, heap, raised) ==
    LET r == EndTrace(t, heap)
    IN [t |-> r.t, exc |-> r.exc, ended |-> TRUE]

\* A chain.invoke that is handed the newest message only.
PipelineInputLastOnly(msgs) == <<msgs[Len(msgs)]>>

\* {"messages": self.messages}
PipelineInput(msgs) == msgs

\* A chat that goes on with the tracer of the turn before, as it is.
CarriedOverTracer(prev) == prev

\* self.tracer = GraphTracer(), then trace() starts the trace on it.
NewTurnTracer(prev) == StartTrace(GraphTracerInit)

\* A chat that starts the history over with the new message.
RestartWithUserMessage(msgs, user_input) == <<HumanMessage(user_input)>>

\* self.messages.append(HumanMessage(content=user_input))
AppendUserMessage(msgs, user_input) == Append(msgs, HumanMessage(user_input))

\* process_message with nothing but whitespace: the early return.
process_message_blank ==
    /\ pc = "idle"
    /\ turns < MaxTurns
    /\ \E user_text \in UserTexts :
          /\ Strip(user_text) = <<>>
          /\ turn' = [NoTurn EXCEPT !.op = "blank", !.input = user_text,
                                    !.text = ValueOrEmpty(chatbot_value)]
    /\ turns' = turns + 1
    /\ UNCHANGED <<tvars, messages, last_response, pc, sent, traceOpen,
                   accepted, echoOnly, earlier>>

\* process_message -> Conversation.chat up to the point where chain.invoke
\* runs: the message is appended, the tracer replaced and the trace started.
chat_invoke ==
    /\ pc = "idle"
    /\ turns < MaxTurns
    /\ \E user_input \in UserTexts :
          /\ Strip(user_input) # <<>>
          /\ messages' = AppendUserMessage(messages, user_input)
          /\ sent' = PipelineInput(messages')
          /\ accepted' = Append(accepted, user_input)
          /\ turn' = [NoTurn EXCEPT !.op = "invoking", !.input = user_input,
                                    !.before = messages]
    /\ tracer' = NewTurnTracer(tracer)
    /\ traceOpen' = TRUE
    /\ parentsValid' = TRUE
    /\ earlier' = earlier \cup created
    /\ created' = {}
    /\ objs' = <<>>
    /\ outcome' = [NoOutcome EXCEPT !.op = "start_trace"]
    /\ pc' = "invoking"
    /\ turns' = turns + 1
    /\ UNCHANGED <<last_response, echoOnly>>

\* chain.invoke returns: the history is replaced, the trace ended, the
\* transcript rendered and returned with the graph export.
chat_returns ==
    /\ pc = "invoking"
    /\ \E kind \in PipelineKinds :
          LET result == PipelineResult(kind, sent)
              x == TraceExit(tracer, objs, None)
              g == GetGraphData(x.t)
          IN /\ messages' = result
             /\ tracer' = x.t
             /\ traceOpen' = ~x.ended
             /\ echoOnly' = (echoOnly /\ kind = "echo" /\ x.exc = None /\ g.exc = None)
             /\ IF x.exc # None
                THEN /\ last_response' = last_response
                     /\ turn' = [turn EXCEPT !.op = "chat", !.propagated = x.exc]
                ELSE /\ last_response' = Render(result)
                     /\ turn' = IF g.exc # None
                                THEN [turn EXCEPT !.op = "chat", !.propagated = g.exc]
                                ELSE [turn EXCEPT !.op = "chat",
                                                  !.text = Render(result),
                                                  !.graph = g.value]
    /\ outcome' = [NoOutcome EXCEPT !.op = "end_trace"]
    /\ pc' = "idle"
    /\ UNCHANGED <<objs, parentsValid, created, sent, turns, accepted, earlier>>

\* chain.invoke raises: the trace is ended on the way out and the exception
\* leaves chat and process_message.
chat_raises ==
    /\ pc = "invoking"
    /\ \E e \in Exceptions :
          LET x == TraceExit(tracer, objs, e)
          IN /\ tracer' = x.t
             /\ traceOpen' = ~x.ended
             /\ turn' = [turn EXCEPT !.op = "chat", !.raised = e,
                                     !.propagated = IF x.exc # None THEN x.exc ELSE e]
    /\ outcome' = [NoOutcome EXCEPT !.op = "end_trace"]
    /\ echoOnly' = FALSE
    /\ pc' = "idle"
    /\ UNCHANGED <<objs, parentsValid, created, messages, last_response, sent,
                   turns, accepted, earlier>>

\* While chain.invoke runs the pipeline calls the tracer it was given.
Invoking == pc = "invoking"
cframe == <<cvars, avars, rvars>>

ChatNext ==
    \/ process_message_blank /\ UNCHANGED <<avars, rvars>>
    \/ chat_invoke /\ UNCHANGED <<avars, rvars>>
    \/ chat_returns /\ UNCHANGED <<avars, rvars>>
    \/ chat_raises /\ UNCHANGED <<avars, rvars>>
    \/ Invoking /\ NewRun /\ UNCHANGED cframe
    \/ Invoking /\ persist_run /\ UNCHANGED cframe
    \/ Invoking /\ on_run_create /\ UNCHANGED cframe

SpecChat == Init /\ [][ChatNext]_vars

(* ---------------------------------------------------------------------- *)
(* agent.py: memory_store, create_memory, process_message,                 *)
(* get_chat_history                                                        *)
(* ---------------------------------------------------------------------- *)
\* create_memory calls a behaviour may make.
MaxCalls == 3
\* Messages one history may hold.
MaxHist == 2

Sessions == {"default_session", "other_session"}
AgentTexts == {<<"hi">>, <<"there">>}
AgentExceptions == {"ValueError", "KeyError", "AgentError", "RuntimeError"}
\* except (ValueError, KeyError, AgentError)
Caught == {"ValueError", "KeyError", "AgentError"}

\* A create_memory that builds and registers a new history on every call.
CreateMemoryAlwaysNew(store, hp, session_id) ==
    [store |-> (session_id :> (Len(hp) + 1)) @@ store,
     heap |-> Append(hp, <<>>),
     ref |-> Len(hp) + 1]

\* A create_memory that registers the first history made for every session.
CreateMemoryShared(store, hp, session_id) ==
    IF session_id \notin DOMAIN store
    THEN IF hp = <<>>
         THEN [store |-> (session_id :> 1) @@ store, heap |-> <<<<>>>>, ref |-> 1]
         ELSE [store |-> (session_id :> 1) @@ store, heap |-> hp, ref |-> 1]
    ELSE [store |-> store, heap |-> hp, ref |-> store[session_id]]

\* create_memory: the store and the heap afterwards, and the history
\* returned.  memory.chat_memory of a new ConversationBufferMemory is a new,
\* empty history.
CreateMemory(store, hp, session_id) ==
    IF session_id \notin DOMAIN store
    THEN [store |-> (session_id :> (Len(hp) + 1)) @@ store,
          heap |-> Append(hp, <<>>),
          ref |-> Len(hp) + 1]
    ELSE [store |-> store, heap |-> hp, ref |-> store[session_id]]

\* A message as stored; via is history, the session it was added for.
Stored(msg, session_id) ==
    [type |-> msg.type, content |-> msg.content, via |-> session_id]

create_memory ==
    /\ Len(held) < MaxCalls
    /\ \E session_id \in Sessions :
          LET r == CreateMemory(memory_store, histories, session_id)
          IN /\ memory_store' = r.store
             /\ histories' = r.heap
             /\ held' = Append(held, [sid |-> session_id, ref |-> r.ref])
             /\ mem' = [op |-> "create_memory", sid |-> session_id]
    /\ UNCHANGED <<tvars, cvars>>

\* A caller of create_memory adds a message to the history it was given.
add_message ==
    /\ \E k \in 1..Len(held), text \in AgentTexts :
          /\ Len(histories[held[k].ref]) < MaxHist
          /\ histories' = [histories EXCEPT ![held[k].ref] =
                         Append(@, Stored(HumanMessage(text), held[k].sid))]
          /\ mem' = [op |-> "add_message", sid |-> held[k].sid]
    /\ UNCHANGED <<tvars, cvars, memory_store, held>>

\* agent.process_message: agent_with_chat_history.invoke looks the session's
\* history up with create_memory, runs the agent and, when that returns,
\* adds the input and the output to the history.
agent_process_message ==
    /\ pc = "idle"
    /\ turns < MaxTurns
    /\ \E message \in AgentTexts, e \in AgentExceptions \cup {None} :
          LET session_id == "default_session"
              r == CreateMemory(memory_store, histories, session_id)
              output == <<"ack:">> \o message
          IN /\ memory_store' = r.store
             /\ IF e = None
                THEN /\ Len(r.heap[r.ref]) + 2 <= MaxHist
                     /\ histories' = [r.heap EXCEPT ![r.ref] =
                                    @ \o <<Stored(HumanMessage(message), session_id),
                                           Stored(AIMessage(output), session_id)>>]
                     /\ turn' = [NoTurn EXCEPT !.op = "agent", !.input = message,
                                               !.response = <<output>>]
                ELSE /\ histories' = r.heap
                     /\ turn' = IF e \in Caught
                                THEN [NoTurn EXCEPT !.op = "agent", !.input = message,
                                                    !.raised = e, !.error = e]
                                ELSE [NoTurn EXCEPT !.op = "agent", !.input = message,
                                                    !.raised = e, !.propagated = e]
             /\ mem' = [op |-> "process_message", sid |-> session_id]
    /\ turns' = turns + 1
    /\ UNCHANGED <<tvars, messages, last_response, pc, sent, traceOpen,
                   accepted, echoOnly, earlier, held>>

\* get_chat_history: memory.messages if memory else []
GetChatHistory(store, hp) ==
    IF "default_session" \in DOMAIN store THEN hp[store["default_session"]]
    ELSE <<>>

get_chat_history ==
    /\ mem' = [op |-> "get_chat_history", sid |-> "default_session"]
    /\ turn' = [NoTurn EXCEPT !.op = "get_chat_history",
                              !.text = GetChatHistory(memory_store, histories)]
    /\ UNCHANGED <<tvars, messages, last_response, pc, sent, turns, traceOpen,
                   accepted, echoOnly, earlier, memory_store, histories, held>>

AgentNext ==
    \/ create_memory /\ UNCHANGED rvars
    \/ add_message /\ UNCHANGED rvars
    \/ agent_process_message /\ UNCHANGED rvars
    \/ get_chat_history /\ UNCHANGED rvars

SpecAgent == Init /\ [][AgentNext]_vars

(* ---------------------------------------------------------------------- *)
(* create_memory called from several threads.  Nothing in agent.py locks   *)
(* memory_store, so between two statements of one call another thread may  *)
(* run.  A call is three steps: the membership test, the creation and      *)
(* registration of a history, and the final lookup that is returned.       *)
(* ---------------------------------------------------------------------- *)
InCall(t) == callers[t].pc # "idle"
CallsBegun == Len(held) + Cardinality({t \in Threads : InCall(t)})

\* if session_id not in memory_store:
cm_check(t) ==
    /\ ~InCall(t)
    /\ CallsBegun < MaxCalls
    /\ \E session_id \in Sessions :
          /\ callers' = [callers EXCEPT ![t] =
                           [pc |-> IF session_id \notin DOMAIN memory_store
                                   THEN "create" ELSE "return",
                            sid |-> session_id]]
          /\ mem' = [op |-> "create_memory", sid |-> session_id]
    /\ UNCHANGED <<tvars, cvars, memory_store, histories, held, crvars>>

\* memory = ConversationBufferMemory(...);
\* memory_store[session_id] = memory.chat_memory
cm_store(t) ==
    /\ callers[t].pc = "create"
    /\ histories' = Append(histories, <<>>)
    /\ memory_store' = (callers[t].sid :> (Len(histories) + 1)) @@ memory_store
    /\ callers' = [callers EXCEPT ![t].pc = "return"]
    /\ mem' = [op |-> "create_memory", sid |-> callers[t].sid]
    /\ UNCHANGED <<tvars, cvars, held, crvars>>

\* return memory_store[session_id]
cm_return(t) ==
    /\ callers[t].pc = "return"
    /\ held' = Append(held, [sid |-> callers[t].sid,
                             ref |-> memory_store[callers[t].sid]])
    /\ callers' = [callers EXCEPT ![t] = Outside]
    /\ mem' = [op |-> "create_memory", sid |-> callers[t].sid]
    /\ UNCHANGED <<tvars, cvars, memory_store, histories, crvars>>

MemoryRaceNext ==
    \/ \E t \in Threads : cm_check(t)
    \/ \E t \in Threads : cm_store(t)
    \/ \E t \in Threads : cm_return(t)
    \/ add_message /\ UNCHANGED rvars

SpecMemoryRace == Init /\ [][MemoryRaceNext]_vars

(* ---------------------------------------------------------------------- *)
(* Properties of the turn operations                                       *)
(* ---------------------------------------------------------------------- *)
\* C4: when the pipeline invocation raised, the turn operation let no
\* exception out and returned {response: None, error: <message>}.
C4_StructuredError ==
    (turn.op \in {"chat", "agent"} /\ turn.raised # None)
        => /\ turn.propagated = None
           /\ turn.response = <<>>
           /\ turn.error # None

\* C5: the trace bracket is open exactly while chain.invoke runs: every
\* chat that has ended, by return or by exception, has run end_trace after
\* its start_trace.
C5_TraceBracketClosed ==
    /\ pc = "invoking" => traceOpen
    /\ pc = "idle" => ~traceOpen

\* A chat whose pipeline logged a run and then raised.
C5_Witness ==
    /\ pc = "idle"
    /\ turn.op = "chat"
    /\ turn.raised # None
    /\ Len(tracer.runs) > 0
    /\ ~traceOpen

\* C6: a turn with empty or whitespace-only input changes no history,
\* invokes no pipeline and returns the previously rendered transcript.
C6_BlankNoOp ==
    [][process_message_blank =>
          /\ messages' = messages
          /\ pc' = "idle"
          /\ sent' = sent
          /\ turn'.text = last_response]_vars

\* The history n echo turns must leave: user_1, assistant_1, ..., user_n,
\* assistant_n.
RECURSIVE Expected(_)
Expected(inputs) ==
    IF inputs = <<>> THEN <<>>
    ELSE <<HumanMessage(Head(inputs)), AIMessage(<<"ack:">> \o Head(inputs))>>
             \o Expected(Tail(inputs))

\* C7: with the echo pipeline, n successful chat turns leave a history and
\* a transcript of exactly the 2n messages user_1, assistant_1, ..., user_n,
\* assistant_n, and every turn hands the pipeline the full history.
C7_EchoRoundTrip ==
    echoOnly =>
        /\ pc = "idle" =>
              /\ messages = Expected(accepted)
              /\ Len(messages) = 2 * Len(accepted)
              /\ last_response = Render(Expected(accepted))
        /\ pc = "invoking" =>
              sent = Append(Expected(SubSeq(accepted, 1, Len(accepted) - 1)),
                            HumanMessage(accepted[Len(accepted)]))

\* Two successful echo turns with different inputs.
C7_Witness ==
    /\ echoOnly
    /\ pc = "idle"
    /\ turn.op = "chat"
    /\ Len(accepted) = 2
    /\ accepted[1] # accepted[2]
    /\ Len(messages) = 4

\* C11: when the pipeline invocation raised, the history after the turn is
\* the history before it followed by exactly the turn's user message.
C11_UserMessageKept ==
    (turn.op = "chat" /\ turn.raised # None)
        => messages = Append(turn.before, HumanMessage(turn.input))

\* A failed turn on a history that already held an exchange.
C11_Witness ==
    /\ pc = "idle"
    /\ turn.op = "chat"
    /\ turn.raised # None
    /\ Len(turn.before) = 2
    /\ Len(messages) = 3

\* C14: the tracer carries nothing over from one turn to the next: the
\* trace of a turn starts on an empty graph and an empty log, and the export
\* chat returns holds the runs created in this turn, and only those.
C14_NoCarryOver ==
    /\ outcome.op = "start_trace" =>
          (tracer.nodes = <<>> /\ tracer.edges = {} /\ tracer.runs = <<>>)
    /\ (turn.op = "chat" /\ turn.graph # <<>>) =>
          ExportedIds(turn.graph[1]) = created

\* A second turn whose export has the one run it created, after a turn
\* that created runs of both ids.
C14_Witness ==
    /\ pc = "idle"
    /\ turn.op = "chat"
    /\ turn.graph # <<>>
    /\ earlier = RunIds
    /\ Cardinality(created) = 1
    /\ ExportedIds(turn.graph[1]) = created

(* ---------------------------------------------------------------------- *)
(* Properties of the memory store                                          *)
(* ---------------------------------------------------------------------- *)
History(s) == histories[memory_store[s]]

\* C8: every history create_memory has returned for a session id is the
\* one history registered for that id (the same object, so what is added
\* through one is seen through all), and a history is made only by the
\* first call for an id.
C8_SameHistory ==
    /\ \A k \in 1..Len(held) :
           /\ held[k].sid \in DOMAIN memory_store
           /\ held[k].ref = memory_store[held[k].sid]
    /\ Len(histories) = Cardinality(DOMAIN memory_store)

\* Two calls for one id, and a message added through the history returned.
C8_Witness ==
    \E j, k \in 1..Len(held) :
        /\ j < k
        /\ held[j].sid = held[k].sid
        /\ mem.op = "add_message"
        /\ Len(histories[held[j].ref]) > 0

\* Every stored message lies in the history of the session it was added
\* for, and no two sessions share a history.
Isolated ==
    /\ \A s \in DOMAIN memory_store :
           \A i \in 1..Len(History(s)) : History(s)[i].via = s
    /\ \A s1, s2 \in DOMAIN memory_store :
           s1 # s2 => memory_store[s1] # memory_store[s2]

\* C9: a message added to one session never appears in the history of
\* another, and an operation on one session leaves the history of every
\* other session as it was.
C9_SessionIsolation ==
    [][/\ Isolated'
       /\ \A s \in DOMAIN memory_store :
              s # mem'.sid =>
                  /\ s \in DOMAIN memory_store'
                  /\ histories'[memory_store'[s]] = History(s)]_vars

\* Both sessions registered, each holding a message.
C9_Witness ==
    /\ DOMAIN memory_store = Sessions
    /\ \A s \in Sessions : Len(History(s)) > 0
    /\ mem.op = "add_message"

(* ---------------------------------------------------------------------- *)
(* Conversation.chat called from several threads on the one module-level   *)
(* conversation.  chat takes no lock, so between two statements of one     *)
(* call another thread may run.  self.tracer is read anew at each of its   *)
(* uses: by the with statement, by the callbacks argument and by the       *)
(* return statement.  Each thread makes one call; its pipeline creates one *)
(* run.                                                                    *)
(* ---------------------------------------------------------------------- *)
ThreadRunIds == <<"a", "b", "c">>
\* The run the pipeline invoked by thread t creates.
RunOf(t) ==
    [id |-> ThreadRunIds[t], parent_run_id |-> None, name |-> Names[t],
     run_type |-> Kinds[t], status |-> "running", end_time |-> None]

\* What the chat steps leave alone.
chatframe ==
    <<tracer, outcome, parentsValid, created, pc, sent, turn, turns,
      traceOpen, accepted, echoOnly, earlier, avars, callers>>

\* self.messages.append(HumanMessage(content=user_input))
chat_append(t) ==
    /\ chats[t].pc = "idle"
    /\ \E user_input \in UserTexts :
          /\ Strip(user_input) # <<>>
          /\ messages' = AppendUserMessage(messages, user_input)
          /\ chats' = [chats EXCEPT ![t].pc = "appended", ![t].input = user_input]
    /\ UNCHANGED <<chatframe, objs, last_response, tracers, self_tracer, phase>>

\* self.tracer = GraphTracer()
chat_new_tracer(t) ==
    /\ chats[t].pc = "appended"
    /\ tracers' = Append(tracers, GraphTracerInit)
    /\ phase' = Append(phase, "new")
    /\ self_tracer' = Len(tracers) + 1
    /\ chats' = [chats EXCEPT ![t].pc = "replaced"]
    /\ UNCHANGED <<chatframe, objs, messages, last_response>>

\* with self.tracer.trace(): the tracer self.tracer names now is the one
\* this trace is bound to; start_trace runs on it.
chat_enter(t) ==
    /\ chats[t].pc = "replaced"
    /\ tracers' = [tracers EXCEPT ![self_tracer] = StartTrace(@)]
    /\ phase' = [phase EXCEPT ![self_tracer] = "started"]
    /\ chats' = [chats EXCEPT ![t].pc = "entered", ![t].cm = self_tracer]
    /\ UNCHANGED <<chatframe, objs, messages, last_response, self_tracer>>

\* chain.invoke({"messages": self.messages}, {"callbacks": [self.tracer]}):
\* the arguments are evaluated and the pipeline starts.
chat_call(t) ==
    /\ chats[t].pc = "entered"
    /\ chats' = [chats EXCEPT ![t].pc = "invoking", ![t].cb = self_tracer,
                               ![t].arg = PipelineInput(messages)]
    /\ UNCHANGED <<chatframe, objs, messages, last_response, tracers,
                   self_tracer, phase>>

\* The pipeline creates its run and calls on_run_create of the tracer it
\* was given.
chat_callback(t) ==
    /\ chats[t].pc = "invoking"
    /\ chats[t].run = 0
    /\ objs' = Append(objs, RunOf(t))
    /\ tracers' = [tracers EXCEPT ![chats[t].cb] =
                      OnRunCreate(@, Len(objs) + 1, RunOf(t))]
    /\ chats' = [chats EXCEPT ![t].run = Len(objs) + 1]
    /\ UNCHANGED <<chatframe, messages, last_response, self_tracer, phase>>

\* chain.invoke returns and self.messages = result["messages"], or it
\* raises.
chat_invoked(t) ==
    /\ chats[t].pc = "invoking"
    /\ \/ \E kind \in PipelineKinds :
             /\ messages' = PipelineResult(kind, chats[t].arg)
             /\ chats' = [chats EXCEPT ![t].pc = "leaving"]
       \/ \E e \in Exceptions :
             /\ messages' = messages
             /\ chats' = [chats EXCEPT ![t].pc = "leaving", ![t].raised = e]
    /\ UNCHANGED <<chatframe, objs, last_response, tracers, self_tracer, phase>>

\* The with block is left: end_trace runs on the tracer the trace was
\* bound to, and an exception goes on to the caller.
chat_exit(t) ==
    /\ chats[t].pc = "leaving"
    /\ LET x == TraceExit(tracers[chats[t].cm], objs, chats[t].raised)
           err == IF x.exc # None THEN x.exc ELSE chats[t].raised
       IN /\ tracers' = [tracers EXCEPT ![chats[t].cm] = x.t]
          /\ phase' = [phase EXCEPT ![chats[t].cm] =
                          IF x.ended THEN "ended" ELSE @]
          /\ chats' = [chats EXCEPT ![t].pc = IF err # None THEN "done" ELSE "exited",
                                    ![t].exc = err]
    /\ UNCHANGED <<chatframe, objs, messages, last_response, self_tracer>>

\* self._last_response = "\n\n".join(...);
\* return self._last_response, self.tracer.get_graph_data()
chat_export(t) ==
    /\ chats[t].pc = "exited"
    /\ last_response' = Render(messages)
    /\ LET g == GetGraphData(tracers[self_tracer])
       IN chats' = [chats EXCEPT ![t].pc = "done", ![t].ret = self_tracer,
                                 ![t].graph = g.value, ![t].exc = g.exc]
    /\ UNCHANGED <<chatframe, objs, messages, tracers, self_tracer, phase>>

ChatRaceNext ==
    \/ \E t \in Threads : chat_append(t)
    \/ \E t \in Threads : chat_new_tracer(t)
    \/ \E t \in Threads : chat_enter(t)
    \/ \E t \in Threads : chat_call(t)
    \/ \E t \in Threads : chat_callback(t)
    \/ \E t \in Threads : chat_invoked(t)
    \/ \E t \in Threads : chat_exit(t)
    \/ \E t \in Threads : chat_export(t)

SpecChatRace == Init /\ [][ChatRaceNext]_vars

\* C17: with create_memory called from several threads, one history is
\* created for a session id and every caller gets that one: each history
\* handed out is the history registered for its session id, and there are
\* no more histories than registered ids.
C17_OneHistoryUnderRace ==
    /\ \A j, k \in 1..Len(held) :
           held[j].sid = held[k].sid => held[j].ref = held[k].ref
    /\ \A k \in 1..Len(held) : held[k].ref = memory_store[held[k].sid]
    /\ Len(histories) <= Cardinality(DOMAIN memory_store)

\* C18: when chat calls interleave, each call passes to the pipeline and
\* exports the tracer it started and ends, the export a call returns has
\* only the run of its own pipeline invocation, and once every call is over
\* no tracer is left started.
C18_OneTracerPerCall ==
    /\ \A t \in Threads :
          /\ chats[t].cb # 0 => chats[t].cb = chats[t].cm
          /\ chats[t].ret # 0 => chats[t].ret = chats[t].cm
          /\ chats[t].graph # <<>> =>
                ExportedIds(chats[t].graph[1]) \subseteq {ThreadRunIds[t]}
    /\ (\A t \in Threads : chats[t].pc = "done") =>
          \A i \in 1..Len(phase) : phase[i] # "started"

====
